---- MODULE Spec2Model ----
(***************************************************************************)
(* A state-machine model of the Leasehold chain module: the Chain          *)
(* orchestrator (bootstrap, timer jobs, the main Sequence, block-event     *)
(* handlers, cleanup) and the Transport ingest paths.                      *)
(*                                                                         *)
(* Every await of the JavaScript source is a step boundary: an action      *)
(* models the code that runs between two suspension points.                *)
(***************************************************************************)
EXTENDS Integers, Sequences, FiniteSets, TLC

\* Largest number of tasks waiting in the main Sequence.
MaxQueue == 2
\* Largest number of transactions in the block of an event.
MaxBlockTx == 2
\* Largest number of transactions in a postTransactions batch.
MaxBatch == 2
\* Largest number of values of query.ids that are written out.
MaxCsv == 2
\* Largest small number of connected peers of one kind.
MaxFewPeers == 2
\* Largest number of rows a transaction query returns.
MaxRows == 2

\* The most values blocksCommon accepts in query.ids.
MaxCommonIds == 1000
\* The limit blocks passes to loadBlocksDataWS.
BlocksLimit == 34
\* The cap on the peers counted by calculateConsensus.
MAX_PEERS == 100

VARIABLES
    phase,            \* position of Chain.bootstrap()
    options,          \* this.options: loading.rebuildUpToRound, syncing.active, broadcasts.active
    scope,            \* this.scope: "null", "created" (no modules yet), "full"
    procCleanup,      \* process 'cleanup' emissions of bootstrap: "none", "plain", "error"
    listeners,        \* attached event listeners, as <<emitter, event>>
    jobs,             \* names registered with jobQueue.register
    netSubs,          \* the network:event postTransactions/postBlock subscriptions exist
    queue,            \* the main Sequence: kinds of the tasks waiting, oldest first
    current,          \* the task the Sequence is awaiting, or "none"
    forgePc,          \* position of the body of a forging task
    syncPc,           \* position of the body of a sync task
    blockPc,          \* position of a receiveBlockFromNetwork task
    ingestPc,         \* position of Transport._receiveTransaction
    ingestCheck,      \* the block its checks were composed with, and their result
    consensusPc,      \* position of the calculateConsensus job
    stale,            \* blocks.isStale()
    delegatesEnabled, \* forger.delegatesEnabled()
    ticking,          \* rounds.ticking()
    lastDone,         \* how the last finished forging or sync task ended
    cleanupPc,        \* position of Chain.cleanup()
    fault,            \* the component or module whose cleanup() fails, and how
    report,           \* what cleanup() invoked, logged and left unhandled
    emitted,          \* the last event emitted by Blocks or the TransactionPool
    lastCall,         \* the last call of a Transport method or of peers.calculateConsensus
    request,          \* what that call is made with, and how its collaborators answer
    published         \* the module published {alias}:bootstrap on the channel

vars == <<phase, options, scope, procCleanup, listeners, jobs, netSubs, queue,
          current, forgePc, syncPc, blockPc, ingestPc, ingestCheck,
          consensusPc, stale,
          delegatesEnabled, ticking, lastDone, cleanupPc, fault, report, emitted,
          lastCall, request, published>>

lifeVars == <<phase, options, scope, procCleanup, listeners, jobs, netSubs>>
seqVars == <<queue, current, forgePc, syncPc, blockPc>>
envVars == <<stale, delegatesEnabled, ticking>>
cleanVars == <<cleanupPc, fault, report>>

(***************************************************************************)
(* Event names and emitters.                                               *)
(***************************************************************************)
EVENT_BROADCAST_BLOCK == "BROADCAST_BLOCK"
EVENT_DELETE_BLOCK == "DELETE_BLOCK"
EVENT_NEW_BLOCK == "NEW_BLOCK"
EVENT_NEW_BROADHASH == "NEW_BROADHASH"
EVENT_UNCONFIRMED_TRANSACTION == "UNCONFIRMED_TRANSACTION"

\* The listeners _subscribeToEvents attaches: four on this.blocks, one on
\* this.transactionPool.
subscribeToEvents ==
    { <<"blocks", EVENT_BROADCAST_BLOCK>>,
      <<"blocks", EVENT_DELETE_BLOCK>>,
      <<"blocks", EVENT_NEW_BLOCK>>,
      <<"transactionPool", EVENT_UNCONFIRMED_TRANSACTION>>,
      <<"blocks", EVENT_NEW_BROADHASH>> }

\* _unsubscribeToEvents: five removeAllListeners calls, all on this.blocks.
unsubscribeToEvents(ls) ==
    { l \in ls : ~ ( /\ l[1] = "blocks"
                     /\ l[2] \in { EVENT_BROADCAST_BLOCK, EVENT_DELETE_BLOCK,
                                   EVENT_NEW_BLOCK, EVENT_NEW_BROADHASH,
                                   EVENT_UNCONFIRMED_TRANSACTION } ) }

(***************************************************************************)
(* Loader state read by the chain and the transport.                       *)
(***************************************************************************)
\* loader.syncing(): true while a sync is active.
loaderSyncing == syncPc # "idle"

NoTask == [kind |-> "none", threw |-> "none", result |-> "none", logged |-> FALSE]

\* scope.components and scope.modules, in key (insertion) order.
Components == <<"storage", "cache", "logger">>
Modules == <<"interfaceAdapters", "rounds", "blocks", "transactionPool",
             "peers", "loader", "forger", "transport">>

Range(f) == { f[i] : i \in DOMAIN f }

\* At most one cleanup() of a component or module fails: the promise it
\* returns rejects.
NoFault == [unit |-> "none"]
Faults == {NoFault} \cup [unit : Range(Components) \cup Range(Modules)]
NoReport == [invoked |-> {}, logged |-> {}, unhandled |-> {}]

(***************************************************************************)
(* Values carried by block events.                                         *)
(***************************************************************************)
\* A transaction instance and its toJSON() form.
Tx(i) == [form |-> "instance", id |-> i]
toJSON(tx) == [form |-> "json", id |-> tx.id]

\* An amount: a BigNum object, its toString() form, or undefined.
Big(n) == [type |-> "BigNum", value |-> n]
Undefined == [type |-> "undefined", value |-> 0]
toString(a) == [type |-> "string", value |-> a.value]
truthy(a) == a.type # "undefined"

Reverse(s) == [i \in 1..Len(s) |-> s[Len(s) + 1 - i]]
\* block.transactions.map(transactionInstance => transactionInstance.toJSON())
toJSONAll(txs) == [i \in 1..Len(txs) |-> toJSON(txs[i])]

EventBlocks ==
    { [transactions |-> [i \in 1..n |-> Tx(i)], totalAmount |-> a,
       totalFee |-> a, reward |-> Big(1)] :
         n \in 0..MaxBlockTx, a \in {Undefined, Big(5)} }

NoBlock == [transactions |-> <<>>, totalAmount |-> Undefined,
            totalFee |-> Undefined, reward |-> Undefined]
NoEvent == [name |-> "none", emitter |-> "none", before |-> NoBlock,
            after |-> NoBlock, effects |-> {}, poolArg |-> <<>>,
            afterCleanup |-> FALSE, heard |-> FALSE, syncing |-> FALSE]

(***************************************************************************)
(* What the Transport methods and the getNodeStatus action are called with, *)
(* and how their collaborators answer.                                      *)
(***************************************************************************)
\* A postBlock payload: it passes validation (the WSBlocksBroadcast schema and
\* objectNormalize) or it does not.
BlockQueries == [valid : BOOLEAN]

\* How the collaborators treat one transaction: fromJson throws
\* ("malformed"), the composed checks return errors ("invalid"), the pool
\* throws ("rejected"), or the pool accepts it ("ok").
Fates == {"ok", "malformed", "invalid", "rejected"}

\* A transaction as it arrives, and the instance fromJson makes of it.
TransactionJSON(i) == [form |-> "json", id |-> i, bundled |-> FALSE]
\* The batch of n transactions, and the ways its transactions can fare.
Batch(n) == [i \in 1..n |-> TransactionJSON(i)]
BatchFates(n) == [1..n -> Fates]

\* What the postTransaction action can be called with: nothing, params
\* without a transaction, or a transaction.
TransactionQueries ==
    { [kind |-> "undefined", transaction |-> TransactionJSON(0)],
      [kind |-> "noTransaction", transaction |-> TransactionJSON(0)] }
    \cup { [kind |-> "transaction", transaction |-> TransactionJSON(i)] :
             i \in 1..MaxBatch }

\* The ids of the blocks a store can hold.
BlockIds == {1, 2}

\* One comma-separated value of query.ids: digits, digits in quotes, or
\* something that is no number.
Tokens == [kind : {"digits", "quoted"}, id : BlockIds]
              \cup {[kind |-> "word", id |-> 0]}

\* query.ids: the values written out, followed by `repeat` more copies of the
\* last one.  No value at all stands for a query without ids.
CsvIds ==
    { [tokens |-> t, repeat |-> r] :
        t \in UNION { [1..n -> Tokens] : n \in 1..MaxCsv },
        r \in {0, MaxCommonIds - 2, MaxCommonIds - 1} }
NoIds == [tokens |-> <<>>, repeat |-> 0]

CommonQueries == [ids : CsvIds \cup {NoIds}, wellFormed : BOOLEAN]

\* What the blocks action can be called with.
BlocksQueries ==
    { [kind |-> "undefined", lastBlockId |-> 0],
      [kind |-> "noLastBlockId", lastBlockId |-> 0] }
    \cup { [kind |-> "lastBlockId", lastBlockId |-> i] : i \in BlockIds }

\* What blocks.loadBlocksDataWS finds: it fails, or so many blocks follow
\* lastId, each with a tf_data that is absent, a Buffer, or a value whose
\* toString throws.
Loads ==
    [fails : BOOLEAN,
     following : {0, 1, BlocksLimit, BlocksLimit + 1},
     tf_data : {"none", "Buffer", "unconvertible"}]

Broadhashes == {"A", "B"}

\* The kinds of connected peer: whether peer.modules[moduleAlias] is there,
\* and the broadhash in it ("undefined": the field is missing).
PeerKinds ==
    << [advertises |-> FALSE, broadhash |-> "undefined"],
       [advertises |-> TRUE, broadhash |-> "undefined"],
       [advertises |-> TRUE, broadhash |-> "A"],
       [advertises |-> TRUE, broadhash |-> "B"] >>

\* How many peers of one kind are connected: a few, or more than MAX_PEERS.
PeerCounts == (0..MaxFewPeers) \cup {MAX_PEERS + 1}

\* network:getConnectedPeers: the number of connected peers of each kind.
ConnectedPeers == [1..Len(PeerKinds) -> PeerCounts]

\* app:getApplicationState: modules[moduleAlias] is missing, or has a broadhash.
AppStates ==
    {[known |-> FALSE, broadhash |-> "undefined"]}
        \cup [known : {TRUE}, broadhash : Broadhashes]

\* JavaScript values of the rows of trs: null, a string, a Buffer.  A string
\* or a Buffer is the sequence of its characters.
Null == [is |-> "null"]
String(chars) == [is |-> "string", chars |-> chars]
Buffer(chars) == [is |-> "Buffer", chars |-> chars]

\* trs.signatures: null, the empty string, or signatures joined by commas.
SignaturesFields ==
    {Null, String(<<>>), String(<<"a", ",", "b">>),
     String(<<"b", ",", "a">>), String(<<"a", ",">>)}

\* The public keys of the members of a multisignature wallet, in the order
\* of the rows of mem_accounts2multisignatures.
Keys == {"K1", "K2"}
MemberLists == {<<>>, <<"K1", "K2">>, <<"K2", "K1">>}

\* verifyData: the (signature, public key) pairs that verify over the hash
\* of the transaction.  Only the signature "a" is one that a key made.
ValidSets == SUBSET ({<<"a">>} \X Keys)

\* A row of trs as the queries select it; id stands for the columns that
\* are copied as they are (id, timestamp, amount, blockId).
Row(i, t, recipientId, transferData, signatures) ==
    [id |-> i, type |-> t, senderId |-> String(<<"S">>),
     senderPublicKey |-> Buffer(<<"P">>), recipientId |-> recipientId,
     transferData |-> transferData, signatures |-> signatures]

\* What varies from row to row: the recipient and the data.
RowShapes ==
    [recipientId : {Null, String(<<"R">>)},
     transferData : {Null, Buffer(<<"m">>)}]

\* The rows one query returns: every row has the type and the signatures of
\* the query.
RowLists(t, signatures) ==
    UNION { { [i \in 1..n |-> Row(i, t, shapes[i].recipientId,
                                  shapes[i].transferData, signatures)] :
                shapes \in [1..n -> RowShapes] } : n \in 0..MaxRows }

\* constants.MIN_BROADHASH_CONSENSUS, a percentage: the usual 51, or 100.
MinBroadhashConsensus == {51, 100}

\* One call: the method, its payload, and the answers of the collaborators
\* the method awaits.
Requests ==
    [method : {"postBlock"}, query : BlockQueries]
    \cup UNION { { [method |-> "postTransactions",
                    query |-> [valid |-> v, transactions |-> Batch(n)],
                    fates |-> f] : v \in BOOLEAN, f \in BatchFates(n) } :
                  n \in 0..MaxBatch }
    \cup [method : {"postTransaction"}, query : TransactionQueries, fate : Fates]
    \cup [method : {"blocksCommon"}, query : CommonQueries,
          store : SUBSET BlockIds, storageFails : BOOLEAN]
    \cup [method : {"blocks"}, query : BlocksQueries, load : Loads]
    \cup [method : {"getNodeStatus"}, broadhash : Broadhashes,
          appState : AppStates, connectedPeers : ConnectedPeers]
    \cup UNION { [method : {"getOutboundTransactions"},
                   transactions : RowLists(t, g),
                   members : MemberLists, valid : ValidSets] :
                  t \in {0, 1}, g \in SignaturesFields }
    \cup [method : {"isPoorConsensus"}, forgingForce : BOOLEAN,
          minBroadhashConsensus : MinBroadhashConsensus,
          broadhash : Broadhashes,
          appState : AppStates, connectedPeers : ConnectedPeers]
NoRequest == [method |-> "none"]

\* No transaction is being received.
NoCheck == [against |-> "none", errors |-> "unchecked"]

\* No Transport method and no consensus calculation was called yet.
NoCall == [method |-> "none"]

Init ==
    /\ phase = "new"
    /\ options \in [rebuildUpToRound : BOOLEAN, syncingActive : BOOLEAN,
                    broadcastsActive : BOOLEAN]
    /\ scope = "null"
    /\ procCleanup = "none"
    /\ listeners = {}
    /\ jobs = {}
    /\ netSubs = FALSE
    /\ queue = <<>>
    /\ current = "none"
    /\ forgePc = "idle"
    /\ syncPc = "idle"
    /\ blockPc = "idle"
    /\ ingestPc = "idle"
    /\ ingestCheck = NoCheck
    /\ consensusPc = "idle"
    /\ stale = FALSE
    /\ delegatesEnabled = FALSE
    /\ ticking = FALSE
    /\ lastDone = NoTask
    /\ cleanupPc = "idle"
    /\ fault \in Faults
    /\ report = NoReport
    /\ emitted = NoEvent
    /\ lastCall = NoCall
    /\ request \in Requests \cup {NoRequest}
    /\ published = FALSE

(***************************************************************************)
(* Chain.bootstrap                                                          *)
(***************************************************************************)
\* process.emit('cleanup', error) after logger.fatal: the catch of bootstrap.
bootstrapFatal ==
    /\ phase' = "failed"
    /\ procCleanup' = "error"

\* _startLoader: nextSync is registered only when options.syncing.active.
startLoader(js) ==
    IF ~options.syncingActive THEN js ELSE js \cup {"nextSync"}

\* _calculateConsensus: registers the calculateConsensus job.
calculateConsensusJob(js) == js \cup {"calculateConsensus"}

\* An error thrown before the try of bootstrap: bootstrap() rejects, nothing
\* is logged and nothing is emitted.
bootstrapRejects ==
    /\ phase' = "rejected"
    /\ procCleanup' = procCleanup

\* A variant of the first part of bootstrap that registers the timer jobs
\* and subscribes to the network events before the block chain is loaded.
BootstrapInitSubscribingEarly ==
    /\ phase = "new"
    /\ \E failAt \in {"none", "require", "config", "genesis", "storage"} :
          /\ options' = IF options.rebuildUpToRound
                           /\ failAt \notin {"require", "config"}
                        THEN [options EXCEPT !.broadcastsActive = FALSE,
                                             !.syncingActive = FALSE]
                        ELSE options
          /\ CASE failAt \in {"require", "config"} -> /\ bootstrapRejects
                                                      /\ scope' = "null"
                [] failAt = "genesis" -> /\ bootstrapFatal
                                         /\ scope' = "null"
                [] failAt = "storage" -> /\ bootstrapFatal
                                         /\ scope' = "created"
                [] OTHER -> /\ phase' = "loading"
                            /\ scope' = "full"
                            /\ procCleanup' = procCleanup
    /\ netSubs' = TRUE
    /\ jobs' = calculateConsensusJob(startLoader(jobs)) \cup {"nextForge"}
    /\ UNCHANGED listeners
    /\ UNCHANGED <<seqVars, ingestPc, ingestCheck, consensusPc, envVars, lastDone, cleanVars, emitted, lastCall, request, published>>

\* bootstrap up to "await this._initModules()": the require of the genesis
\* block and the configuration requests, which come before the try, then the
\* rebuild switch, the genesis check, the components, the scope, the storage
\* and cache steps.
BootstrapInit ==
    /\ phase = "new"
    /\ \E failAt \in {"none", "require", "config", "genesis", "storage"} :
          /\ options' = IF options.rebuildUpToRound
                           /\ failAt \notin {"require", "config"}
                        THEN [options EXCEPT !.broadcastsActive = FALSE,
                                             !.syncingActive = FALSE]
                        ELSE options
          /\ CASE failAt \in {"require", "config"} -> /\ bootstrapRejects
                                                      /\ scope' = "null"
                [] failAt = "genesis" -> /\ bootstrapFatal
                                         /\ scope' = "null"
                [] failAt = "storage" -> /\ bootstrapFatal
                                         /\ scope' = "created"
                [] OTHER -> /\ phase' = "loading"
                            /\ scope' = "full"
                            /\ procCleanup' = procCleanup
    /\ UNCHANGED <<listeners, jobs, netSubs>>
    /\ UNCHANGED <<seqVars, ingestPc, ingestCheck, consensusPc, envVars, lastDone, cleanVars, emitted, lastCall, request, published>>

\* A variant of BootstrapLoaded without the rebuild exit.
BootstrapLoadedWithoutRebuildExit ==
    /\ phase = "loading"
    /\ \E ok \in BOOLEAN :
          IF ~ok
          THEN /\ bootstrapFatal
               /\ UNCHANGED <<listeners, jobs>>
          ELSE /\ listeners' = listeners \cup subscribeToEvents
               /\ jobs' = calculateConsensusJob(startLoader(jobs))
               /\ phase' = "startForging"
               /\ procCleanup' = procCleanup
    /\ UNCHANGED <<options, scope, netSubs>>
    /\ UNCHANGED <<seqVars, ingestPc, ingestCheck, consensusPc, envVars, lastDone, cleanVars, emitted, lastCall, request, published>>

\* "await this.blocks.loadBlockChain(...)" settles; then the rebuild exit, or
\* _subscribeToEvents, _startLoader, _calculateConsensus and the start of
\* _startForging (up to "await this.forger.loadDelegates()").
BootstrapLoaded ==
    /\ phase = "loading"
    /\ \E ok \in BOOLEAN :
          IF ~ok
          THEN /\ bootstrapFatal
               /\ UNCHANGED <<listeners, jobs>>
          ELSE IF options.rebuildUpToRound
          THEN /\ procCleanup' = "plain"
               /\ phase' = "rebuilt"
               /\ UNCHANGED <<listeners, jobs>>
          ELSE /\ listeners' = listeners \cup subscribeToEvents
               /\ jobs' = calculateConsensusJob(startLoader(jobs))
               /\ phase' = "startForging"
               /\ procCleanup' = procCleanup
    /\ UNCHANGED <<options, scope, netSubs>>
    /\ UNCHANGED <<seqVars, ingestPc, ingestCheck, consensusPc, envVars, lastDone, cleanVars, emitted, lastCall, request, published>>

\* _startForging after loadDelegates settled (a failure is caught and logged),
\* then the two network subscriptions of bootstrap.
BootstrapForging ==
    /\ phase = "startForging"
    /\ jobs' = jobs \cup {"nextForge"}
    /\ netSubs' = TRUE
    /\ phase' = "ready"
    /\ delegatesEnabled' \in BOOLEAN
    /\ UNCHANGED <<options, scope, procCleanup, listeners>>
    /\ UNCHANGED <<seqVars, ingestPc, ingestCheck, consensusPc, stale, ticking, lastDone, cleanVars, emitted, lastCall, request, published>>

\* Whether load goes on to channel.publish once "await this.chain.bootstrap()"
\* is over: it does when bootstrap() resolved, and bootstrap() resolves after
\* its catch and after its rebuild exit as well; when bootstrap() rejected,
\* load rejects.
loadPublishes == phase \in {"ready", "rebuilt", "failed"}

\* LeaseholdChainModule.load after "await this.chain.bootstrap()":
\* channel.publish(`${alias}:bootstrap`).
LoadPublish ==
    /\ loadPublishes
    /\ ~published
    /\ published' = TRUE
    /\ UNCHANGED <<lifeVars, seqVars, ingestPc, ingestCheck, consensusPc, envVars, lastDone, cleanVars, emitted, lastCall, request>>

(***************************************************************************)
(* The main Sequence (utils/sequence): a FIFO of tasks, one at a time.     *)
(***************************************************************************)
sequenceAdd(q, kind) == Append(q, kind)

\* A variant in which the body of the sync task never calls loader.sync().
firstPcWithoutSync(kind) ==
    CASE kind = "forge" -> "beforeForge"
      [] kind = "sync" -> "idle"
      [] OTHER -> "processing"

\* The first suspension point of each task body.
firstPc(kind) ==
    CASE kind = "forge" -> "beforeForge"
      [] kind = "sync" -> "sync"
      [] OTHER -> "processing"

\* The Sequence starts its oldest task once the previous one has settled.
SeqStart ==
    /\ current = "none"
    /\ queue # <<>>
    /\ current' = Head(queue)
    /\ queue' = Tail(queue)
    /\ forgePc' = IF Head(queue) = "forge" THEN firstPc("forge") ELSE forgePc
    /\ syncPc' = IF Head(queue) = "sync" THEN firstPc("sync") ELSE syncPc
    /\ blockPc' = IF Head(queue) = "block" THEN firstPc("block") ELSE blockPc
    /\ UNCHANGED <<lifeVars, ingestPc, ingestCheck, consensusPc, envVars, lastDone, cleanVars, emitted, lastCall, request, published>>

(***************************************************************************)
(* Timer jobs                                                               *)
(***************************************************************************)
\* A variant of the sync condition that forgets the staleness test.
shouldSyncIgnoringStale == ~loaderSyncing

\* The condition of _syncTask.
shouldSync == ~loaderSyncing /\ stale

\* _syncTask: adds the sync task to the Sequence when the condition holds.
syncTask(q) == IF shouldSync THEN sequenceAdd(q, "sync") ELSE q

\* A variant of _forgingTask that runs its body outside the Sequence.
forgingTaskUnsequenced ==
    /\ forgePc = "idle"
    /\ forgePc' = firstPc("forge")
    /\ UNCHANGED <<queue, current, syncPc, blockPc>>

\* _forgingTask: the whole body is one task of the Sequence.
forgingTask ==
    /\ queue' = sequenceAdd(queue, "forge")
    /\ UNCHANGED <<current, forgePc, syncPc, blockPc>>

\* A tick of the nextSync job.
SyncTick ==
    /\ "nextSync" \in jobs
    /\ Len(queue) < MaxQueue
    /\ queue' = syncTask(queue)
    /\ UNCHANGED <<current, forgePc, syncPc, blockPc>>
    /\ UNCHANGED <<lifeVars, ingestPc, ingestCheck, consensusPc, envVars, lastDone, cleanVars, emitted, lastCall, request, published>>

\* A tick of the nextForge job.
ForgeTick ==
    /\ "nextForge" \in jobs
    /\ Len(queue) < MaxQueue
    /\ forgingTask
    /\ UNCHANGED <<lifeVars, ingestPc, ingestCheck, consensusPc, envVars, lastDone, cleanVars, emitted, lastCall, request, published>>

\* A tick of the calculateConsensus job: peers.calculateConsensus is awaited.
ConsensusTick ==
    /\ "calculateConsensus" \in jobs
    /\ consensusPc = "idle"
    /\ consensusPc' = "calculating"
    /\ UNCHANGED <<lifeVars, seqVars, ingestPc, ingestCheck, envVars, lastDone, cleanVars, emitted, lastCall, request, published>>

\* The consensus calculation settles and is logged.
ConsensusDone ==
    /\ consensusPc = "calculating"
    /\ consensusPc' = "idle"
    /\ UNCHANGED <<lifeVars, seqVars, ingestPc, ingestCheck, envVars, lastDone, cleanVars, emitted, lastCall, request, published>>

(***************************************************************************)
(* The bodies of the forging task and of the sync task                     *)
(***************************************************************************)
\* A block is appended: blocks.lastBlock is a new block, and the checks of
\* a transaction that is still being checked were composed with the one
\* before it.
lastBlockAdvanced ==
    IF ingestPc = "checking"
    THEN [ingestCheck EXCEPT !.against = "previous"]
    ELSE ingestCheck

\* A variant without the try/catch around the task body.
taskOutcomeNoCatch(kind, threw) ==
    [kind |-> kind, threw |-> threw,
     result |-> IF threw = "none" THEN "resolved" ELSE "rejected",
     logged |-> FALSE]

\* The try/catch of the task bodies: an error is logged and the task resolves.
taskOutcome(kind, threw) ==
    [kind |-> kind, threw |-> threw, result |-> "resolved",
     logged |-> threw # "none"]

\* A variant of the forging checks that forgets rounds.ticking().
readyToForgeIgnoringTicking == delegatesEnabled /\ ~loaderSyncing

\* The two checks between beforeForge() and forge().
readyToForge == delegatesEnabled /\ ~(loaderSyncing \/ ticking)

\* The forging task ends: the Sequence is free again.
forgeEnds(threw) ==
    /\ forgePc' = "idle"
    /\ current' = IF current = "forge" THEN "none" ELSE current
    /\ lastDone' = taskOutcome("forge", threw)

\* forger.beforeForge() settles; the checks; forger.forge() is called.
ForgeAfterBeforeForge ==
    /\ forgePc = "beforeForge"
    /\ \E threw \in BOOLEAN :
          IF threw
          THEN forgeEnds("beforeForge")
          ELSE IF readyToForge
          THEN /\ forgePc' = "forge"
               /\ UNCHANGED <<current, lastDone>>
          ELSE forgeEnds("none")
    /\ UNCHANGED <<queue, syncPc, blockPc>>
    /\ UNCHANGED <<lifeVars, ingestPc, ingestCheck, consensusPc, envVars, cleanVars, emitted, lastCall, request, published>>

\* forger.forge() settles.
ForgeDone ==
    /\ forgePc = "forge"
    /\ \E threw \in BOOLEAN :
          /\ forgeEnds(IF threw THEN "forge" ELSE "none")
          /\ ingestCheck' = IF threw THEN ingestCheck ELSE lastBlockAdvanced
    /\ UNCHANGED <<queue, syncPc, blockPc>>
    /\ UNCHANGED <<lifeVars, ingestPc, consensusPc, envVars, cleanVars, emitted, lastCall, request, published>>

\* loader.sync() settles: blocks may have been received (lastReceipt renewed).
SyncDone ==
    /\ syncPc = "sync"
    /\ \E threw \in BOOLEAN, received \in BOOLEAN :
          /\ lastDone' = taskOutcome("sync", IF threw THEN "sync" ELSE "none")
          /\ stale' = IF ~threw /\ received THEN FALSE ELSE stale
          /\ ingestCheck' = IF ~threw /\ received
                            THEN lastBlockAdvanced ELSE ingestCheck
    /\ syncPc' = "idle"
    /\ current' = IF current = "sync" THEN "none" ELSE current
    /\ UNCHANGED <<queue, forgePc, blockPc>>
    /\ UNCHANGED <<lifeVars, ingestPc, consensusPc, delegatesEnabled, ticking, cleanVars, emitted, lastCall, request, published>>

\* blocks.receiveBlockFromNetwork settles: an accepted block renews lastReceipt.
BlockDone ==
    /\ blockPc = "processing"
    /\ blockPc' = "idle"
    /\ current' = IF current = "block" THEN "none" ELSE current
    /\ \E accepted \in BOOLEAN :
          /\ stale' = IF accepted THEN FALSE ELSE stale
          /\ ingestCheck' = IF accepted THEN lastBlockAdvanced ELSE ingestCheck
    /\ UNCHANGED <<queue, forgePc, syncPc>>
    /\ UNCHANGED <<lifeVars, ingestPc, consensusPc, delegatesEnabled, ticking, lastDone, cleanVars, emitted, lastCall, request, published>>

(***************************************************************************)
(* Transport: transaction and block ingest                                  *)
(***************************************************************************)
\* _receiveTransaction up to "await composedTransactionsCheck([transaction])".
receiveTransaction ==
    /\ ingestPc = "idle"
    /\ ingestPc' = "checking"
    /\ ingestCheck' = [against |-> "lastBlock", errors |-> "unchecked"]

\* The postTransaction action of the chain (transport.postTransaction).
PostTransaction ==
    /\ scope = "full"
    /\ receiveTransaction
    /\ UNCHANGED <<lifeVars, seqVars, consensusPc, envVars, lastDone, cleanVars, emitted, lastCall, request, published>>

\* A network postTransactions event: the subscription of bootstrap, then
\* transport.postTransactions and _receiveTransactions.
PostTransactions ==
    /\ netSubs
    /\ ~options.rebuildUpToRound
    /\ options.broadcastsActive
    /\ receiveTransaction
    /\ UNCHANGED <<lifeVars, seqVars, consensusPc, envVars, lastDone, cleanVars, emitted, lastCall, request, published>>

\* The checks settle: with errors the transaction is dropped, else
\* transactionPool.processUnconfirmedTransaction is called and awaited.
ReceiveChecked ==
    /\ ingestPc = "checking"
    /\ \E valid \in BOOLEAN :
          /\ ingestPc' = IF valid THEN "inPool" ELSE "idle"
          /\ ingestCheck' = IF valid
                            THEN [ingestCheck EXCEPT !.errors = "none"]
                            ELSE NoCheck
    /\ UNCHANGED <<lifeVars, seqVars, consensusPc, envVars, lastDone, cleanVars, emitted, lastCall, request, published>>

\* processUnconfirmedTransaction settles.
ReceiveDone ==
    /\ ingestPc = "inPool"
    /\ ingestPc' = "idle"
    /\ ingestCheck' = NoCheck
    /\ UNCHANGED <<lifeVars, seqVars, consensusPc, envVars, lastDone, cleanVars, emitted, lastCall, request, published>>

\* transport.postBlock for a schema-valid block: dropped while syncing, else
\* handed to blocks.receiveBlockFromNetwork, which runs as a Sequence task.
postBlock(q) ==
    IF ~options.broadcastsActive THEN q
    ELSE IF loaderSyncing THEN q
    ELSE sequenceAdd(q, "block")

\* A network postBlock event.
PostBlock ==
    /\ netSubs
    /\ ~options.rebuildUpToRound
    /\ Len(queue) < MaxQueue
    /\ queue' = postBlock(queue)
    /\ UNCHANGED <<current, forgePc, syncPc, blockPc>>
    /\ UNCHANGED <<lifeVars, ingestPc, ingestCheck, consensusPc, envVars, lastDone, cleanVars, emitted, lastCall, request, published>>

(***************************************************************************)
(* The environment of the chain                                             *)
(***************************************************************************)
\* No block was received for longer than BLOCK_RECEIPT_TIMEOUT.
BecomeStale ==
    /\ scope = "full"
    /\ ~stale
    /\ stale' = TRUE
    /\ UNCHANGED <<lifeVars, seqVars, ingestPc, ingestCheck, consensusPc, delegatesEnabled, ticking, lastDone, cleanVars, emitted, lastCall, request, published>>

\* The updateForgingStatus action toggles forging of a delegate.
UpdateForgingStatus ==
    /\ phase = "ready"
    /\ delegatesEnabled' = ~delegatesEnabled
    /\ UNCHANGED <<lifeVars, seqVars, ingestPc, ingestCheck, consensusPc, stale, ticking, lastDone, cleanVars, emitted, lastCall, request, published>>

\* A round boundary starts or ends being applied.
RoundTick ==
    /\ phase = "ready"
    /\ ticking' = ~ticking
    /\ UNCHANGED <<lifeVars, seqVars, ingestPc, ingestCheck, consensusPc, stale, delegatesEnabled, lastDone, cleanVars, emitted, lastCall, request, published>>

(***************************************************************************)
(* Chain.cleanup                                                            *)
(***************************************************************************)
\* The forEach over the components: every cleanup() is called inside an async
\* callback nobody awaits, so a failure is an unhandled rejection.
cleanupComponents(f) ==
    [invoked |-> Range(Components),
     unhandled |-> IF f.unit \in Range(Components) THEN {f.unit} ELSE {}]

\* The map over the modules: cleanup() is called on each, in key order, and
\* the promises are handed to Promise.all.
cleanupModules(f) ==
    [invoked |-> Range(Modules),
     rejected |-> IF f.unit \in Range(Modules) THEN {f.unit} ELSE {}]

\* The catch on Promise.all: the rejection is logged.
cleanupCatch(rejected) == rejected

\* cleanup() up to "await Promise.all(...)".  Without this.blocks or
\* this.scope.modules the first lines throw a TypeError.
CleanupStart ==
    /\ cleanupPc = "idle"
    /\ phase \in {"ready", "rebuilt", "failed"}
    /\ IF scope # "full"
       THEN /\ cleanupPc' = "rejected"
            /\ UNCHANGED <<listeners, report>>
       ELSE /\ listeners' = unsubscribeToEvents(listeners)
            /\ report' = [invoked |-> cleanupComponents(fault).invoked
                                        \cup cleanupModules(fault).invoked,
                          logged |-> {},
                          unhandled |-> cleanupComponents(fault).unhandled]
            /\ cleanupPc' = "awaiting"
    /\ UNCHANGED <<phase, options, scope, procCleanup, jobs, netSubs, fault>>
    /\ UNCHANGED <<seqVars, ingestPc, ingestCheck, consensusPc, envVars, lastDone, emitted, lastCall, request, published>>

\* Promise.all settles; cleanup() returns.
CleanupFinish ==
    /\ cleanupPc = "awaiting"
    /\ report' = [report EXCEPT !.logged = cleanupCatch(cleanupModules(fault).rejected)]
    /\ cleanupPc' = "resolved"
    /\ UNCHANGED <<lifeVars, fault>>
    /\ UNCHANGED <<seqVars, ingestPc, ingestCheck, consensusPc, envVars, lastDone, emitted, lastCall, request, published>>

(***************************************************************************)
(* Events of Blocks and of the TransactionPool, and the chain's handlers   *)
(***************************************************************************)
\* A variant of onBroadcastBlock without the test of loader.syncing().
onBroadcastBlockWhileSyncing(b) ==
    [block |-> [b EXCEPT
                  !.totalAmount = IF truthy(@) THEN toString(@) ELSE @,
                  !.totalFee = IF truthy(@) THEN toString(@) ELSE @,
                  !.reward = IF truthy(@) THEN toString(@) ELSE @,
                  !.transactions = toJSONAll(@)],
     effects |-> {"broadcaster.broadcast"},
     poolArg |-> <<>>]

\* Transport.onBroadcastBlock(block, true): the block is rewritten in place.
onBroadcastBlock(b) ==
    IF loaderSyncing
    THEN [block |-> b, effects |-> {}, poolArg |-> <<>>]
    ELSE [block |-> [b EXCEPT
                       !.totalAmount = IF truthy(@) THEN toString(@) ELSE @,
                       !.totalFee = IF truthy(@) THEN toString(@) ELSE @,
                       !.reward = IF truthy(@) THEN toString(@) ELSE @,
                       !.transactions = toJSONAll(@)],
          effects |-> {"broadcaster.broadcast"},
          poolArg |-> <<>>]

\* A variant of the DELETE_BLOCK handler that hands the transactions over in
\* the order of the block.
onDeleteBlockUnreversed(b) ==
    IF Len(b.transactions) > 0
    THEN [block |-> b,
          effects |-> {"transactionPool.onDeletedTransactions", "channel.publish"},
          poolArg |-> b.transactions]
    ELSE [block |-> b, effects |-> {"channel.publish"}, poolArg |-> <<>>]

\* The DELETE_BLOCK handler: Array.prototype.reverse() reverses in place.
onDeleteBlock(b) ==
    IF Len(b.transactions) > 0
    THEN [block |-> [b EXCEPT !.transactions = Reverse(@)],
          effects |-> {"transactionPool.onDeletedTransactions", "channel.publish"},
          poolArg |-> Reverse(b.transactions)]
    ELSE [block |-> b, effects |-> {"channel.publish"}, poolArg |-> <<>>]

\* The NEW_BLOCK handler.
onNewBlock(b) ==
    IF Len(b.transactions) > 0
    THEN [block |-> b,
          effects |-> {"transactionPool.onConfirmedTransactions", "channel.publish"},
          poolArg |-> b.transactions]
    ELSE [block |-> b, effects |-> {"channel.publish"}, poolArg |-> <<>>]

\* The NEW_BROADHASH handler: interchain:updateModuleState is invoked.
onNewBroadhash(b) ==
    [block |-> b, effects |-> {"channel.invoke"}, poolArg |-> <<>>]

\* The EVENT_UNCONFIRMED_TRANSACTION handler: Transport.onUnconfirmedTransaction.
onUnconfirmedTransaction(b) ==
    [block |-> b, effects |-> {"broadcaster.enqueue", "channel.publish"},
     poolArg |-> <<>>]

\* An emitter delivers an event, synchronously, to the attached listener.
deliver(emitter, name, b, handled) ==
    /\ scope = "full"
    /\ emitted' =
         IF <<emitter, name>> \in listeners
         THEN [name |-> name, emitter |-> emitter, before |-> b,
               after |-> handled.block, effects |-> handled.effects,
               poolArg |-> handled.poolArg,
               afterCleanup |-> cleanupPc = "resolved",
               heard |-> TRUE, syncing |-> loaderSyncing]
         ELSE [name |-> name, emitter |-> emitter, before |-> b, after |-> b,
               effects |-> {}, poolArg |-> <<>>,
               afterCleanup |-> cleanupPc = "resolved",
               heard |-> FALSE, syncing |-> loaderSyncing]
    /\ UNCHANGED <<lifeVars, seqVars, ingestPc, ingestCheck, consensusPc, envVars, lastDone, cleanVars, lastCall, request, published>>

EmitBroadcastBlock ==
    \E b \in EventBlocks :
        deliver("blocks", EVENT_BROADCAST_BLOCK, b, onBroadcastBlock(b))

EmitDeleteBlock ==
    \E b \in EventBlocks :
        deliver("blocks", EVENT_DELETE_BLOCK, b, onDeleteBlock(b))

EmitNewBlock ==
    \E b \in EventBlocks :
        deliver("blocks", EVENT_NEW_BLOCK, b, onNewBlock(b))

EmitNewBroadhash ==
    deliver("blocks", EVENT_NEW_BROADHASH, NoBlock, onNewBroadhash(NoBlock))

EmitUnconfirmedTransaction ==
    deliver("transactionPool", EVENT_UNCONFIRMED_TRANSACTION, NoBlock,
            onUnconfirmedTransaction(NoBlock))

(***************************************************************************)
(* Transport: the methods called with any payload.  A call is recorded in  *)
(* lastCall with what it validated, what it threw and what it handed on.   *)
(***************************************************************************)
\* A variant of postBlock that does not ask loader.syncing().
postBlockQueryIgnoringSync(query) ==
    IF ~options.broadcastsActive
    THEN [validated |-> FALSE, threw |-> "none", syncing |-> "unchecked",
          received |-> FALSE]
    ELSE IF ~query.valid
    THEN [validated |-> TRUE, threw |-> "errors", syncing |-> "unchecked",
          received |-> FALSE]
    ELSE [validated |-> TRUE, threw |-> "none", syncing |-> "unchecked",
          received |-> TRUE]

\* Transport.postBlock(query): the broadcasts switch, the validation, the
\* syncing test, and the hand-over to blocks.receiveBlockFromNetwork.
postBlockQuery(query) ==
    IF ~options.broadcastsActive
    THEN [validated |-> FALSE, threw |-> "none", syncing |-> "unchecked",
          received |-> FALSE]
    ELSE IF ~query.valid
    THEN [validated |-> TRUE, threw |-> "errors", syncing |-> "unchecked",
          received |-> FALSE]
    ELSE IF loaderSyncing
    THEN [validated |-> TRUE, threw |-> "none", syncing |-> "yes",
          received |-> FALSE]
    ELSE [validated |-> TRUE, threw |-> "none", syncing |-> "no",
          received |-> TRUE]

\* Transport.postBlock is called; a block handed to receiveBlockFromNetwork
\* becomes a task of the Sequence.
TransportPostBlock ==
    /\ scope = "full"
    /\ Len(queue) < MaxQueue
    /\ request.method = "postBlock"
    /\ lastCall' = [method |-> "postBlock", query |-> request.query,
                    wasSyncing |-> loaderSyncing,
                    outcome |-> postBlockQuery(request.query)]
    /\ queue' = IF postBlockQuery(request.query).received
                THEN sequenceAdd(queue, "block")
                ELSE queue
    /\ UNCHANGED <<current, forgePc, syncPc, blockPc>>
    /\ UNCHANGED <<lifeVars, ingestPc, ingestCheck, consensusPc, envVars, lastDone, cleanVars, emitted, request, published>>

\* The instance interfaceAdapters.transactions.fromJson makes of a transaction.
fromJson(transactionJSON) ==
    [form |-> "instance", id |-> transactionJSON.id,
     bundled |-> transactionJSON.bundled]

\* convertErrorsToString(errors)
convertErrorsToString(errors) == [type |-> "string", of |-> errors]

\* Transport._receiveTransaction as one call: what it threw, what it logged,
\* what it handed to transactionPool.processUnconfirmedTransaction and the id
\* it returned (0: nothing returned).
receiveTransactionOutcome(transactionJSON, fate) ==
    CASE fate \in {"malformed", "invalid"} ->
            [threw |-> fate, logged |-> TRUE, pool |-> <<>>, returned |-> 0]
      [] fate = "rejected" ->
            [threw |-> fate, logged |-> TRUE,
             pool |-> <<fromJson(transactionJSON)>>, returned |-> 0]
      [] OTHER ->
            [threw |-> "none", logged |-> FALSE,
             pool |-> <<fromJson(transactionJSON)>>,
             returned |-> fromJson(transactionJSON).id]

\* A variant of the loop without its try/catch: the first failure ends it.
receiveTransactionsStoppingAtFailure(transactions, fates) ==
    LET bad == { i \in 1..Len(transactions) : fates[i] # "ok" }
        last == IF bad = {} THEN Len(transactions)
                ELSE CHOOSE i \in bad : \A j \in bad : i <= j
    IN  [attempts |->
            [i \in 1..last |->
                receiveTransactionOutcome(
                    [transactions[i] EXCEPT !.bundled = TRUE], fates[i])],
         marked |-> [i \in 1..last |-> [transactions[i] EXCEPT !.bundled = TRUE]],
         logged |-> [i \in 1..last |-> FALSE],
         threw |-> IF bad = {} THEN "none" ELSE fates[last]]

\* Transport._receiveTransactions: every transaction is marked bundled and
\* handed to _receiveTransaction; the catch of the loop logs a failure.
receiveTransactions(transactions, fates) ==
    [attempts |->
        [i \in 1..Len(transactions) |->
            receiveTransactionOutcome(
                [transactions[i] EXCEPT !.bundled = TRUE], fates[i])],
     marked |-> [i \in 1..Len(transactions) |->
                    [transactions[i] EXCEPT !.bundled = TRUE]],
     logged |-> [i \in 1..Len(transactions) |-> fates[i] # "ok"],
     threw |-> "none"]

NoBatchOutcome == [attempts |-> <<>>, marked |-> <<>>, logged |-> <<>>,
                   threw |-> "none"]

\* A variant of postTransactions that validates before the broadcasts switch.
postTransactionsValidatingFirst(query, fates) ==
    IF ~query.valid
    THEN [validated |-> TRUE, threw |-> "errors", batch |-> NoBatchOutcome]
    ELSE IF ~options.broadcastsActive
    THEN [validated |-> TRUE, threw |-> "none", batch |-> NoBatchOutcome]
    ELSE [validated |-> TRUE, threw |-> "none",
          batch |-> receiveTransactions(query.transactions, fates)]

\* Transport.postTransactions(query): the broadcasts switch, the validation
\* against WSTransactionsRequest, then _receiveTransactions.
postTransactions(query, fates) ==
    IF ~options.broadcastsActive
    THEN [validated |-> FALSE, threw |-> "none", batch |-> NoBatchOutcome]
    ELSE IF ~query.valid
    THEN [validated |-> TRUE, threw |-> "errors", batch |-> NoBatchOutcome]
    ELSE [validated |-> TRUE,
          threw |-> receiveTransactions(query.transactions, fates).threw,
          batch |-> receiveTransactions(query.transactions, fates)]

\* Transport.postTransactions is called with a batch of any validity.
TransportPostTransactions ==
    /\ scope = "full"
    /\ request.method = "postTransactions"
    /\ lastCall' = [method |-> "postTransactions", query |-> request.query,
                    fates |-> request.fates,
                    outcome |-> postTransactions(request.query, request.fates)]
    /\ UNCHANGED <<lifeVars, seqVars, ingestPc, ingestCheck, consensusPc, envVars, lastDone, cleanVars, emitted, request, published>>

\* What the try block of postTransaction throws: a TypeError when there is
\* no transaction to read, else what _receiveTransaction throws.
postTransactionErrors(query, fate) ==
    IF query.kind # "transaction"
    THEN "TypeError"
    ELSE receiveTransactionOutcome(query.transaction, fate).threw

NoError == [name |-> "none", type |-> "none",
            message |-> convertErrorsToString("none")]

\* A variant of postTransaction that lets the underlying errors through.
postTransactionRethrowing(query, fate) ==
    IF postTransactionErrors(query, fate) = "none"
    THEN [settled |-> "resolved", success |-> TRUE,
          transactionId |->
              receiveTransactionOutcome(query.transaction, fate).returned,
          pool |-> receiveTransactionOutcome(query.transaction, fate).pool,
          error |-> NoError]
    ELSE [settled |-> "rejected", success |-> FALSE, transactionId |-> 0,
          pool |-> IF query.kind = "transaction"
                   THEN receiveTransactionOutcome(query.transaction, fate).pool
                   ELSE <<>>,
          error |-> [name |-> postTransactionErrors(query, fate),
                     type |-> "none",
                     message |-> convertErrorsToString("none")]]

\* Transport.postTransaction(query): the id of the received transaction, or
\* an InvalidTransactionError made of whatever was thrown.
postTransaction(query, fate) ==
    IF postTransactionErrors(query, fate) = "none"
    THEN [settled |-> "resolved", success |-> TRUE,
          transactionId |->
              receiveTransactionOutcome(query.transaction, fate).returned,
          pool |-> receiveTransactionOutcome(query.transaction, fate).pool,
          error |-> NoError]
    ELSE [settled |-> "rejected", success |-> FALSE, transactionId |-> 0,
          pool |-> IF query.kind = "transaction"
                   THEN receiveTransactionOutcome(query.transaction, fate).pool
                   ELSE <<>>,
          error |-> [name |-> "InvalidTransactionError",
                     type |-> "InvalidActionError",
                     message |-> convertErrorsToString(
                                     postTransactionErrors(query, fate))]]

\* The postTransaction action of the chain is called with any params.
TransportPostTransaction ==
    /\ scope = "full"
    /\ request.method = "postTransaction"
    /\ lastCall' = [method |-> "postTransaction", query |-> request.query,
                    fate |-> request.fate,
                    outcome |-> postTransaction(request.query, request.fate)]
    /\ UNCHANGED <<lifeVars, seqVars, ingestPc, ingestCheck, consensusPc, envVars, lastDone, cleanVars, emitted, request, published>>

(***************************************************************************)
(* Transport: blocksCommon and blocks                                       *)
(***************************************************************************)
\* query.ids.split(',').length
splitLength(ids) == Len(ids.tokens) + ids.repeat

\* validator.validate(definitions.WSBlocksCommonRequest, query) finds no error.
validCommonRequest(query) == query.ids # NoIds /\ query.wellFormed

\* The quotes are removed, the values are split, the non-numeric are dropped.
escapedIds(ids) ==
    LET numeric(t) == t.kind \in {"digits", "quoted"}
        stripped == SelectSeq(ids.tokens, numeric)
    IN  [i \in 1..Len(stripped) |-> stripped[i].id]

TooManyIds == "ids property contains more than 1000 values"

\* blocksCommon after its checks of the query: the escaping, then
\* storage.entities.Block.get({id: escapedIds[0]}).  common is the id of the
\* row returned, 0 for null.
commonBlock(query, store, storageFails) ==
    IF escapedIds(query.ids) = <<>>
    THEN [threw |-> "Invalid block id sequence", validated |-> TRUE,
          queried |-> <<>>, success |-> FALSE, common |-> 0]
    ELSE IF storageFails
    THEN [threw |-> "Failed to get common block", validated |-> TRUE,
          queried |-> <<escapedIds(query.ids)[1]>>, success |-> FALSE,
          common |-> 0]
    ELSE [threw |-> "none", validated |-> TRUE,
          queried |-> <<escapedIds(query.ids)[1]>>, success |-> TRUE,
          common |-> IF escapedIds(query.ids)[1] \in store
                     THEN escapedIds(query.ids)[1]
                     ELSE 0]

\* A variant of blocksCommon that validates the query before counting.
blocksCommonValidatingFirst(query, store, storageFails) ==
    IF ~validCommonRequest(query)
    THEN [threw |-> "validation", validated |-> TRUE, queried |-> <<>>,
          success |-> FALSE, common |-> 0]
    ELSE IF splitLength(query.ids) > MaxCommonIds
    THEN [threw |-> TooManyIds, validated |-> TRUE, queried |-> <<>>,
          success |-> FALSE, common |-> 0]
    ELSE commonBlock(query, store, storageFails)

\* Transport.blocksCommon(query): the count of values, the validation, then
\* the search of the common block.
blocksCommon(query, store, storageFails) ==
    IF query.ids # NoIds /\ splitLength(query.ids) > MaxCommonIds
    THEN [threw |-> TooManyIds, validated |-> FALSE, queried |-> <<>>,
          success |-> FALSE, common |-> 0]
    ELSE IF ~validCommonRequest(query)
    THEN [threw |-> "validation", validated |-> TRUE, queried |-> <<>>,
          success |-> FALSE, common |-> 0]
    ELSE commonBlock(query, store, storageFails)

\* The blocksCommon action of the chain is called.
TransportBlocksCommon ==
    /\ scope = "full"
    /\ request.method = "blocksCommon"
    /\ lastCall' = [method |-> "blocksCommon", query |-> request.query,
                    store |-> request.store,
                    storageFails |-> request.storageFails,
                    outcome |-> blocksCommon(request.query, request.store,
                                             request.storageFails)]
    /\ UNCHANGED <<lifeVars, seqVars, ingestPc, ingestCheck, consensusPc, envVars, lastDone, cleanVars, emitted, request, published>>

\* blocksModule.loadBlocksDataWS({limit, lastId}): the blocks after lastId,
\* no more than limit.
loadBlocksDataWS(filter, load) ==
    [i \in 1..(IF load.following < filter.limit
               THEN load.following ELSE filter.limit) |->
        [id |-> filter.lastId + i, tf_data |-> load.tf_data]]

\* block.tf_data.toString('utf8') inside its own try/catch.
tfDataToString(block) ==
    [block EXCEPT !.tf_data = IF @ = "Buffer" THEN "string" ELSE @]

\* A variant of blocks without the catch around the load.
blocksWithoutCatch(query, load) ==
    IF query.kind # "lastBlockId"
    THEN [threw |-> "none", request |-> <<>>, success |-> FALSE,
          hasBlocks |-> FALSE, blocks |-> <<>>]
    ELSE IF load.fails
    THEN [threw |-> "load",
          request |-> <<[limit |-> BlocksLimit, lastId |-> query.lastBlockId]>>,
          success |-> FALSE, hasBlocks |-> FALSE, blocks |-> <<>>]
    ELSE [threw |-> "none",
          request |-> <<[limit |-> BlocksLimit, lastId |-> query.lastBlockId]>>,
          success |-> TRUE, hasBlocks |-> TRUE,
          blocks |-> loadBlocksDataWS(
                         [limit |-> BlocksLimit, lastId |-> query.lastBlockId],
                         load)]

\* Transport.blocks(query)
blocks(query, load) ==
    IF query.kind # "lastBlockId"
    THEN [threw |-> "none", request |-> <<>>, success |-> FALSE,
          hasBlocks |-> FALSE, blocks |-> <<>>]
    ELSE IF load.fails
    THEN [threw |-> "none",
          request |-> <<[limit |-> BlocksLimit, lastId |-> query.lastBlockId]>>,
          success |-> FALSE, hasBlocks |-> TRUE, blocks |-> <<>>]
    ELSE LET data == loadBlocksDataWS(
                         [limit |-> BlocksLimit, lastId |-> query.lastBlockId],
                         load)
         IN  [threw |-> "none",
              request |-> <<[limit |-> BlocksLimit,
                             lastId |-> query.lastBlockId]>>,
              success |-> TRUE, hasBlocks |-> TRUE,
              blocks |-> [i \in 1..Len(data) |-> tfDataToString(data[i])]]

\* The blocks action of the chain is called.
TransportBlocks ==
    /\ scope = "full"
    /\ request.method = "blocks"
    /\ lastCall' = [method |-> "blocks", query |-> request.query,
                    load |-> request.load,
                    outcome |-> blocks(request.query, request.load)]
    /\ UNCHANGED <<lifeVars, seqVars, ingestPc, ingestCheck, consensusPc, envVars, lastDone, cleanVars, emitted, request, published>>

(***************************************************************************)
(* Peers.calculateConsensus                                                 *)
(***************************************************************************)
\* The length of an array of peers.
length(peers) ==
    LET S[i \in 0..Len(PeerKinds)] ==
            IF i = 0 THEN 0 ELSE S[i - 1] + peers[i]
    IN  S[Len(PeerKinds)]

\* connectedPeers.filter(peer => peer.modules && peer.modules[moduleAlias])
activePeers(connectedPeers) ==
    [k \in DOMAIN connectedPeers |->
        IF PeerKinds[k].advertises THEN connectedPeers[k] ELSE 0]

\* activePeers.filter(peer => peer.modules[moduleAlias].broadhash === broadhash)
matchingPeers(active, broadhash) ==
    [k \in DOMAIN active |->
        IF PeerKinds[k].broadhash = broadhash THEN active[k] ELSE 0]

\* Math.min and Math.round(n / d) for n >= 0, d > 0.
min(a, b) == IF a < b THEN a ELSE b
mathRound(n, d) == (2 * n + d) \div (2 * d)

\* A variant of calculateConsensus without the clamp to MAX_PEERS.
calculateConsensusUnclamped(broadhash, appState, connectedPeers) ==
    IF ~appState.known
    THEN [active |-> 0, matched |-> 0, consensus |-> 0]
    ELSE IF length(activePeers(connectedPeers)) = 0
    THEN [active |-> 0, matched |-> 0, consensus |-> 0]
    ELSE [active |-> length(activePeers(connectedPeers)),
          matched |-> length(matchingPeers(activePeers(connectedPeers),
                                           appState.broadhash)),
          consensus |->
              mathRound(length(matchingPeers(activePeers(connectedPeers),
                                             appState.broadhash)) * 10000,
                        length(activePeers(connectedPeers)))]

\* A variant of calculateConsensus that goes on when the module is absent
\* from the application state, with an undefined broadhash.
calculateConsensusWithoutModuleCheck(broadhash, appState, connectedPeers) ==
    IF min(length(activePeers(connectedPeers)), MAX_PEERS) = 0
    THEN [active |-> 0, matched |-> 0, consensus |-> 0]
    ELSE [active |-> length(activePeers(connectedPeers)),
          matched |-> length(matchingPeers(activePeers(connectedPeers),
                                           appState.broadhash)),
          consensus |->
              mathRound(
                  min(length(matchingPeers(activePeers(connectedPeers),
                                           appState.broadhash)),
                      MAX_PEERS) * 10000,
                  min(length(activePeers(connectedPeers)), MAX_PEERS))]

\* A variant of calculateConsensus that rounds the ratio before it scales it.
calculateConsensusRoundingFirst(broadhash, appState, connectedPeers) ==
    IF ~appState.known
    THEN [active |-> 0, matched |-> 0, consensus |-> 0]
    ELSE IF min(length(activePeers(connectedPeers)), MAX_PEERS) = 0
    THEN [active |-> 0, matched |-> 0, consensus |-> 0]
    ELSE [active |-> length(activePeers(connectedPeers)),
          matched |-> length(matchingPeers(activePeers(connectedPeers),
                                           appState.broadhash)),
          consensus |->
              mathRound(
                  min(length(matchingPeers(activePeers(connectedPeers),
                                           appState.broadhash)),
                      MAX_PEERS),
                  min(length(activePeers(connectedPeers)), MAX_PEERS))
                * 10000]

\* Peers.calculateConsensus, called with a broadhash it does not read: the
\* broadhash compared is the one of the application state.  The result is in
\* hundredths of a percent; active and matched are the lengths of activePeers
\* and matchingPeers (0 when they were not computed).
calculateConsensus(broadhash, appState, connectedPeers) ==
    IF ~appState.known
    THEN [active |-> 0, matched |-> 0, consensus |-> 0]
    ELSE IF min(length(activePeers(connectedPeers)), MAX_PEERS) = 0
    THEN [active |-> 0, matched |-> 0, consensus |-> 0]
    ELSE [active |-> length(activePeers(connectedPeers)),
          matched |-> length(matchingPeers(activePeers(connectedPeers),
                                           appState.broadhash)),
          consensus |->
              mathRound(
                  min(length(matchingPeers(activePeers(connectedPeers),
                                           appState.broadhash)),
                      MAX_PEERS) * 10000,
                  min(length(activePeers(connectedPeers)), MAX_PEERS))]

\* Peers.getLastConsensus forwards to calculateConsensus.
getLastConsensus(broadhash, appState, connectedPeers) ==
    calculateConsensus(broadhash, appState, connectedPeers)

\* The getNodeStatus action: peers.getLastConsensus(this.blocks.broadhash).
GetNodeStatus ==
    /\ scope = "full"
    /\ request.method = "getNodeStatus"
    /\ lastCall' = [method |-> "calculateConsensus",
                    argument |-> request.broadhash,
                    appState |-> request.appState,
                    connectedPeers |-> request.connectedPeers,
                    outcome |-> getLastConsensus(request.broadhash,
                                                 request.appState,
                                                 request.connectedPeers)]
    /\ UNCHANGED <<lifeVars, seqVars, ingestPc, ingestCheck, consensusPc, envVars, lastDone, cleanVars, emitted, request, published>>

\* What calculateConsensus asks of the channel.
calculateConsensusInvokes(appState) ==
    IF appState.known
    THEN {"app:getApplicationState", "network:getConnectedPeers"}
    ELSE {"app:getApplicationState"}

\* A variant of isPoorConsensus that also calls a consensus equal to the
\* minimum poor.
isPoorConsensusAtMinimum(forgingForce, minBroadhashConsensus, broadhash, appState, connectedPeers) ==
    IF forgingForce
    THEN [invoked |-> {}, poor |-> FALSE]
    ELSE [invoked |-> calculateConsensusInvokes(appState),
          poor |-> calculateConsensus(broadhash, appState,
                                      connectedPeers).consensus
                       <= minBroadhashConsensus * 100]

\* Peers.isPoorConsensus: what it invoked on the channel and what it
\* returned.  The consensus is in hundredths of a percent, the minimum in
\* percent.
isPoorConsensus(forgingForce, minBroadhashConsensus, broadhash, appState, connectedPeers) ==
    IF forgingForce
    THEN [invoked |-> {}, poor |-> FALSE]
    ELSE [invoked |-> calculateConsensusInvokes(appState),
          poor |-> calculateConsensus(broadhash, appState,
                                      connectedPeers).consensus
                       < minBroadhashConsensus * 100]

\* A call of peers.isPoorConsensus(broadhash).
IsPoorConsensus ==
    /\ scope = "full"
    /\ request.method = "isPoorConsensus"
    /\ lastCall' = [method |-> "isPoorConsensus",
                    forgingForce |-> request.forgingForce,
                    minBroadhashConsensus |-> request.minBroadhashConsensus,
                    argument |-> request.broadhash,
                    appState |-> request.appState,
                    connectedPeers |-> request.connectedPeers,
                    outcome |-> isPoorConsensus(request.forgingForce,
                                                request.minBroadhashConsensus,
                                                request.broadhash,
                                                request.appState,
                                                request.connectedPeers)]
    /\ UNCHANGED <<lifeVars, seqVars, ingestPc, ingestCheck, consensusPc, envVars, lastDone, cleanVars, emitted, request, published>>

(***************************************************************************)
(* Chain._sanitizeTransactions and the transaction queries                  *)
(***************************************************************************)
\* The truth value of a row's field: null and the empty string are falsy.
isTruthy(v) == v.is # "null" /\ (v.is = "Buffer" \/ v.chars # <<>>)

\* buffer.toString('utf8') and buffer.toString('hex').
toUtf8(buffer) == [is |-> "string", chars |-> buffer.chars]
toHex(buffer) == [is |-> "hex", chars |-> buffer.chars]

\* object[key] = value and delete object[key].
setField(object, key, value) ==
    [k \in DOMAIN object \cup {key} |-> IF k = key THEN value ELSE object[k]]
deleteField(object, key) ==
    [k \in DOMAIN object \ {key} |-> object[k]]

\* string.split(','): the pieces between the commas.
split(chars) ==
    LET pieces[i \in 0..Len(chars)] ==
            IF i = 0 THEN << <<>> >>
            ELSE IF chars[i] = ","
            THEN Append(pieces[i - 1], <<>>)
            ELSE [pieces[i - 1] EXCEPT
                    ![Len(pieces[i - 1])] = Append(@, chars[i])]
    IN  pieces[Len(chars)]

getAddressFromPublicKey(publicKey) == [is |-> "address", of |-> publicKey]

\* A variant of _findMultisigMemberWalletAddress that takes the first member
\* without verifying the signature.
findMultisigMemberWalletAddressUnverified(transaction, signature, memberPublicKeyList, valid) ==
    IF Len(memberPublicKeyList) = 0
    THEN Null
    ELSE getAddressFromPublicKey(memberPublicKeyList[1])

\* Chain._findMultisigMemberWalletAddress: the address of the first member
\* key that verifies the signature over the hash of the transaction (valid
\* tells which keys do), or null.
findMultisigMemberWalletAddress(transaction, signature, memberPublicKeyList, valid) ==
    LET found == {k \in 1..Len(memberPublicKeyList) :
                    <<signature, memberPublicKeyList[k]>> \in valid}
    IN  IF found = {}
        THEN Null
        ELSE getAddressFromPublicKey(
                 memberPublicKeyList[CHOOSE k \in found :
                                        \A j \in found : k <= j])

\* The body of the map of _sanitizeTransactions, for one row.
sanitizeTransaction(txn, members, valid) ==
    LET withMessage ==
            IF isTruthy(txn.transferData)
            THEN deleteField(setField(txn, "message", toUtf8(txn.transferData)),
                             "transferData")
            ELSE txn
        withKey ==
            IF isTruthy(txn.senderPublicKey)
            THEN setField(withMessage, "senderPublicKey",
                          toHex(txn.senderPublicKey))
            ELSE withMessage
        withRecipient ==
            IF isTruthy(txn.recipientId)
            THEN deleteField(setField(withKey, "recipientAddress",
                                      txn.recipientId),
                             "recipientId")
            ELSE withKey
        withSender ==
            deleteField(setField(withRecipient, "senderAddress", txn.senderId),
                        "senderId")
        signatureList == split(txn.signatures.chars)
    IN  IF txn.type = 0 /\ isTruthy(txn.signatures) /\ Len(signatureList) > 0
        THEN setField(withSender, "signatures",
                      [is |-> "array",
                       items |->
                           [j \in 1..Len(signatureList) |->
                               [signerAddress |->
                                    findMultisigMemberWalletAddress(
                                        txn, signatureList[j], members, valid),
                                signature |-> String(signatureList[j])]]])
        ELSE withSender

\* Chain._sanitizeTransactions: Promise.all over the map keeps the order.
sanitizeTransactions(transactions, members, valid) ==
    [i \in 1..Len(transactions) |->
        sanitizeTransaction(transactions[i], members, valid)]

\* The getOutboundTransactions action: the rows of the query, sanitized.
\* getInboundTransactions and the two ...FromBlock actions do the same with
\* the rows of their queries.
GetOutboundTransactions ==
    /\ scope = "full"
    /\ request.method = "getOutboundTransactions"
    /\ lastCall' = [method |-> "getOutboundTransactions",
                    transactions |-> request.transactions,
                    members |-> request.members,
                    valid |-> request.valid,
                    outcome |-> sanitizeTransactions(request.transactions,
                                                     request.members,
                                                     request.valid)]
    /\ UNCHANGED <<lifeVars, seqVars, ingestPc, ingestCheck, consensusPc, envVars, lastDone, cleanVars, emitted, request, published>>

(***************************************************************************)
(* Specifications                                                           *)
(***************************************************************************)
LifeNext ==
    \/ BootstrapInit
    \/ BootstrapLoaded
    \/ BootstrapForging
    \/ CleanupStart
    \/ CleanupFinish

SyncNext ==
    \/ SeqStart
    \/ SyncTick
    \/ SyncDone
    \/ BecomeStale

SeqNext ==
    \/ ForgeTick
    \/ ConsensusTick
    \/ ConsensusDone
    \/ ForgeAfterBeforeForge
    \/ ForgeDone
    \/ BlockDone
    \/ PostBlock
    \/ PostTransaction
    \/ PostTransactions
    \/ ReceiveChecked
    \/ ReceiveDone
    \/ UpdateForgingStatus
    \/ RoundTick

EventNext ==
    \/ EmitDeleteBlock
    \/ EmitNewBlock
    \/ EmitBroadcastBlock
    \/ EmitNewBroadhash
    \/ EmitUnconfirmedTransaction

BootNext ==
    \/ BootstrapInit
    \/ BootstrapLoaded
    \/ BootstrapForging

IngestNext ==
    \/ TransportPostBlock
    \/ TransportPostTransactions
    \/ TransportPostTransaction
    \/ BlockDone

QueryNext ==
    \/ TransportBlocksCommon
    \/ TransportBlocks
    \/ GetNodeStatus
    \/ IsPoorConsensus

SanitizeNext ==
    \/ GetOutboundTransactions

LoadNext ==
    \/ LoadPublish

Next ==
    \/ LifeNext
    \/ SyncNext
    \/ SeqNext
    \/ EventNext
    \/ IngestNext
    \/ QueryNext
    \/ SanitizeNext
    \/ LoadNext

\* No Transport method and no getNodeStatus is called.
InitNoRequest == Init /\ request = NoRequest

\* Every cleanup() works.
InitNoFault == InitNoRequest /\ fault = NoFault

\* Every cleanup() works; the calls are of the Transport methods that receive.
InitIngest ==
    /\ Init
    /\ fault = NoFault
    /\ request.method \in {"postBlock", "postTransactions", "postTransaction"}

\* Every cleanup() works; the calls are of the read-only actions.
InitQuery ==
    /\ Init
    /\ fault = NoFault
    /\ request.method \in {"blocksCommon", "blocks", "getNodeStatus",
                            "isPoorConsensus"}

\* Every cleanup() works; the calls are of the transaction queries.
InitSanitize ==
    /\ Init
    /\ fault = NoFault
    /\ request.method = "getOutboundTransactions"

\* The whole model.
Spec == Init /\ [][Next]_vars

\* Bootstrap, the timer jobs, the Sequence and the ingest paths.
SpecSeq == InitNoFault /\ [][LifeNext \/ SyncNext \/ SeqNext]_vars

\* The load of the module: bootstrap, the publication, and cleanup.
SpecLoad == InitNoRequest /\ [][LifeNext \/ LoadNext]_vars

\* Bootstrap and the transaction queries.
SpecSanitize == InitSanitize /\ [][BootNext \/ SanitizeNext]_vars

\* Bootstrap, cleanup, syncing and the events.
SpecEvents == InitNoFault /\ [][LifeNext \/ SyncNext \/ EventNext]_vars

\* Bootstrap and cleanup with a failing component or module.
SpecCleanup == InitNoRequest /\ [][LifeNext \/ SyncNext]_vars

\* Bootstrap, syncing, and the Transport methods that receive blocks and
\* transactions, called with any payload.
SpecIngest == InitIngest /\ [][BootNext \/ SyncNext \/ IngestNext]_vars

\* Bootstrap and the read-only actions: blocksCommon, blocks, getNodeStatus.
SpecQuery == InitQuery /\ [][BootNext \/ QueryNext]_vars

\* The Sequence tasks are fairly scheduled and every awaited call settles.
SeqFairness ==
    /\ WF_vars(SeqStart)
    /\ WF_vars(ForgeAfterBeforeForge)
    /\ WF_vars(ForgeDone)
    /\ WF_vars(SyncDone)
    /\ WF_vars(BlockDone)

\* SpecSeq, with every task of the Sequence resolving.
LiveSpec == SpecSeq /\ SeqFairness

(***************************************************************************)
(* Properties                                                               *)
(***************************************************************************)
Returned == cleanupPc = "resolved"
SyncQueued == \E i \in DOMAIN queue : queue[i] = "sync"
TaskAdded(kind) ==
    /\ Len(queue') = Len(queue) + 1
    /\ queue'[Len(queue')] = kind
AllUnits == Range(Components) \cup Range(Modules)
BlockEvents == {EVENT_BROADCAST_BLOCK, EVENT_NEW_BLOCK, EVENT_DELETE_BLOCK}

\* C1: a transaction ingest that mutates the pool
\* (processUnconfirmedTransaction, reached from postTransaction or
\* postTransactions through _receiveTransaction) never runs between the start
\* and the end of a forging task or of a sync task.
C1_IngestSerialized ==
    ingestPc = "inPool" => (forgePc = "idle" /\ syncPc = "idle")

\* C2: forging tasks and sync tasks are totally ordered by the Sequence: at
\* most one of them is executing, the one executing is the task the Sequence
\* awaits, and a task starts only when no task is executing and every task
\* enqueued before it has left the Sequence (it is the oldest one waiting).
C2_TotalOrder ==
    /\ [](~(forgePc # "idle" /\ syncPc # "idle"))
    /\ []((forgePc # "idle" => current = "forge")
          /\ (syncPc # "idle" => current = "sync"))
    /\ [][\A kind \in {"forge", "sync"} :
            LET pc == IF kind = "forge" THEN forgePc ELSE syncPc
                pcNext == IF kind = "forge" THEN forgePc' ELSE syncPc'
            IN  (pc = "idle" /\ pcNext # "idle")
                    => /\ current = "none"
                       /\ forgePc = "idle" /\ syncPc = "idle" /\ blockPc = "idle"
                       /\ queue # <<>>
                       /\ Head(queue) = kind
                       /\ queue' = Tail(queue)]_vars

\* A forging task is executing forge() while a sync task waits behind it.
C2_Witness ==
    /\ forgePc = "forge"
    /\ queue # <<>>
    /\ Head(queue) = "sync"

\* C3: the chain's handlers of BROADCAST_BLOCK, NEW_BLOCK and DELETE_BLOCK leave
\* the event's block as it was emitted: the same transactions in the same
\* order, the same totalAmount, totalFee and reward.
C3_HandlersKeepBlock ==
    emitted.name \in BlockEvents =>
        /\ emitted.after.transactions = emitted.before.transactions
        /\ emitted.after.totalAmount = emitted.before.totalAmount
        /\ emitted.after.totalFee = emitted.before.totalFee
        /\ emitted.after.reward = emitted.before.reward

\* C4: an event emitted after cleanup() returned triggers no handler of the
\* chain: no pool call, no broadcast, no channel publish or invoke.
C4_NoHandlerAfterCleanup ==
    emitted.afterCleanup => emitted.effects = {}

\* C5: after cleanup() returned no forging or sync task is added to the
\* Sequence and no consensus calculation is started.
C5_TimersCancelled ==
    [][Returned =>
         /\ ~TaskAdded("forge")
         /\ ~TaskAdded("sync")
         /\ ~(consensusPc = "idle" /\ consensusPc' = "calculating")]_vars

\* C6: when the cleanup of one component or module fails, the failure is
\* logged, every other cleanup is still invoked, and cleanup() resolves
\* without an unhandled error.
C6_BestEffort ==
    (cleanupPc \in {"resolved", "rejected"} /\ scope = "full" /\ fault # NoFault)
        => /\ cleanupPc = "resolved"
           /\ fault.unit \in report.logged
           /\ report.invoked = AllUnits
           /\ report.unhandled = {}

\* C7: a sync task is added to the Sequence only by a step taken when
\* loader.syncing() is false and blocks.isStale() is true; a nextSync tick in
\* any other case enqueues nothing, and no tick invokes loader.sync(), which
\* starts only as the oldest task of the Sequence.
C7_SyncOnlyWhenStale ==
    [][/\ TaskAdded("sync") => (~loaderSyncing /\ stale)
       /\ (SyncTick /\ ~(~loaderSyncing /\ stale)) => UNCHANGED queue
       /\ SyncTick => UNCHANGED syncPc
       /\ (syncPc = "idle" /\ syncPc' = "sync")
             => (queue # <<>> /\ Head(queue) = "sync")]_vars

\* A tick found the chain stale: a sync task waits in the Sequence.
C7_Witness == SyncQueued /\ stale /\ syncPc = "idle"

\* C8: a nextSync tick that finds the chain stale and no sync in progress
\* leaves a sync task in the Sequence, and a sync task in the Sequence leads to
\* loader.sync() being invoked, every task ahead of it resolving.
C8_StaleTriggersSync ==
    /\ [][(SyncTick /\ ~loaderSyncing /\ stale) => SyncQueued']_vars
    /\ SyncQueued ~> (syncPc = "sync")

\* loader.sync() is running after a task ahead of it (a forging task) ended.
C8_Witness ==
    /\ syncPc = "sync"
    /\ lastDone.kind = "forge"
    /\ options.syncingActive

\* C9: a nextForge tick adds one task to the Sequence and the body of a forging
\* task runs as the Sequence's current task; forger.forge() is invoked only
\* from the point where beforeForge() was awaited, with delegates enabled, no
\* sync in progress and no round ticking; in any other case the task ends
\* without forging.
C9_ForgeGuard ==
    /\ [](forgePc # "idle" => current = "forge")
    /\ [][/\ ForgeTick => (TaskAdded("forge") /\ UNCHANGED forgePc)
          /\ (forgePc # "forge" /\ forgePc' = "forge")
               => /\ forgePc = "beforeForge"
                  /\ delegatesEnabled
                  /\ ~loaderSyncing
                  /\ ~ticking
          /\ (ForgeAfterBeforeForge
                /\ ~(delegatesEnabled /\ ~loaderSyncing /\ ~ticking))
               => (forgePc' = "idle" /\ current' = "none")]_vars

\* forger.forge() has been invoked.
C9_Witness == forgePc = "forge" /\ current = "forge"

\* C10: a forging or sync task in which beforeForge(), forge() or sync() threw
\* has resolved with the error logged; when it ends the Sequence is free for
\* the next task and the timer jobs stay registered.
C10_ErrorsCaught ==
    /\ [](lastDone.threw # "none"
            => (lastDone.result = "resolved" /\ lastDone.logged))
    /\ [](lastDone.kind # "none" => lastDone.result = "resolved")
    /\ [][(forgePc # "idle" /\ forgePc' = "idle")
            \/ (syncPc # "idle" /\ syncPc' = "idle")
               => (current' = "none" /\ jobs' = jobs)]_vars

\* A task whose forge() threw has ended and a later task is running.
C10_Witness ==
    /\ lastDone.threw = "forge"
    /\ current # "none"

\* C11: postBlock hands a schema-valid block to blocks.receiveBlockFromNetwork
\* exactly when broadcasts are active and loader.syncing() is false at the
\* moment it is asked; while syncing the block is dropped: no block task is
\* added to the Sequence.
C11_PostBlockUnlessSyncing ==
    /\ []((lastCall.method = "postBlock" /\ lastCall.query.valid)
            => /\ lastCall.outcome.received
                    <=> (options.broadcastsActive /\ ~lastCall.wasSyncing)
               /\ lastCall.outcome.threw = "none")
    /\ [][TaskAdded("block")
            => /\ lastCall'.method = "postBlock"
               /\ lastCall'.query.valid
               /\ lastCall'.outcome.received
               /\ ~loaderSyncing
               /\ options.broadcastsActive]_vars

\* A valid block was dropped during a sync while an earlier one still waits
\* in the Sequence.
C11_Witness ==
    /\ lastCall.method = "postBlock"
    /\ lastCall.query.valid
    /\ lastCall.wasSyncing
    /\ ~lastCall.outcome.received
    /\ queue = <<"block">>

\* C12: with broadcasts.active = false, postBlock and postTransactions, called
\* with any payload, return without validating it and without throwing;
\* nothing reaches blocks.receiveBlockFromNetwork or
\* transactionPool.processUnconfirmedTransaction.
C12_ReceivingDisabled ==
    /\ []((lastCall.method = "postBlock" /\ ~options.broadcastsActive)
            => /\ ~lastCall.outcome.validated
               /\ lastCall.outcome.threw = "none"
               /\ ~lastCall.outcome.received)
    /\ []((lastCall.method = "postTransactions" /\ ~options.broadcastsActive)
            => /\ ~lastCall.outcome.validated
               /\ lastCall.outcome.threw = "none"
               /\ lastCall.outcome.batch.attempts = <<>>)
    /\ [][~options.broadcastsActive => ~TaskAdded("block")]_vars

\* postTransactions was called with an invalid payload while receiving is
\* disabled.
C12_Witness ==
    /\ lastCall.method = "postTransactions"
    /\ ~options.broadcastsActive
    /\ ~lastCall.query.valid
    /\ phase = "ready"

C14_TwoOutcomes ==
    lastCall.method = "postTransaction"
    => LET out == lastCall.outcome
           failed == lastCall.query.kind # "transaction" \/ lastCall.fate # "ok"
           underlying == IF lastCall.query.kind # "transaction"
                         THEN "TypeError" ELSE lastCall.fate
       IN  /\ failed <=> out.settled = "rejected"
           /\ ~failed <=> out.settled = "resolved"
           /\ out.settled = "resolved"
                 => /\ out.success
                    /\ out.pool = <<[form |-> "instance",
                                     id |-> lastCall.query.transaction.id,
                                     bundled |-> FALSE]>>
                    /\ out.transactionId = out.pool[1].id
           /\ out.settled = "rejected"
                 => /\ out.error.name = "InvalidTransactionError"
                    /\ out.error.type = "InvalidActionError"
                    /\ out.error.message = [type |-> "string", of |-> underlying]

\* The pool threw on a well-formed transaction.
C14_Witness ==
    /\ lastCall.method = "postTransaction"
    /\ lastCall.query.kind = "transaction"
    /\ lastCall.fate = "rejected"
    /\ lastCall.outcome.settled = "rejected"
    /\ lastCall.outcome.pool # <<>>

\* The numeric candidate ids of a blocksCommon query.
Candidates(ids) == { escapedIds(ids)[i] : i \in 1..Len(escapedIds(ids)) }

\* C15: when blocksCommon returns, common is a stored block whose id is one
\* of the candidate ids whenever one of the candidates is stored, and null
\* only when none of them is.
C15_CommonFound ==
    (lastCall.method = "blocksCommon" /\ lastCall.outcome.threw = "none")
    => LET stored == Candidates(lastCall.query.ids) \cap lastCall.store
       IN  /\ stored # {} => lastCall.outcome.common \in stored
           /\ stored = {} => lastCall.outcome.common = 0

\* C16: blocksCommon throws 'ids property contains more than 1000 values'
\* exactly when query.ids has more than 1000 comma-separated values, and then
\* before validating the query and without querying the store.
C16_IdsLimit ==
    lastCall.method = "blocksCommon"
    => /\ lastCall.outcome.threw = "ids property contains more than 1000 values"
             <=> splitLength(lastCall.query.ids) > 1000
       /\ splitLength(lastCall.query.ids) > 1000
             => /\ ~lastCall.outcome.validated
                /\ lastCall.outcome.queried = <<>>

\* 1001 values in a query that would not pass validation, and 1000 values in
\* one that was searched.
C16_Witness ==
    /\ lastCall.method = "blocksCommon"
    /\ splitLength(lastCall.query.ids) = 1001
    /\ ~lastCall.query.wellFormed
    /\ lastCall.outcome.threw = TooManyIds

\* C17: blocks never throws; without a lastBlockId it returns success false
\* and asks Blocks nothing; with one it asks loadBlocksDataWS for at most 34
\* blocks after lastBlockId and returns them with success true, or, the load
\* failing, success false with no blocks.
C17_BlocksNeverThrows ==
    lastCall.method = "blocks"
    => LET out == lastCall.outcome
       IN  /\ out.threw = "none"
           /\ lastCall.query.kind # "lastBlockId"
                 => (~out.success /\ out.request = <<>>)
           /\ lastCall.query.kind = "lastBlockId"
                 => /\ Len(out.request) = 1
                    /\ out.request[1].lastId = lastCall.query.lastBlockId
                    /\ out.request[1].limit <= 34
                    /\ lastCall.load.fails
                          => (~out.success /\ out.hasBlocks /\ out.blocks = <<>>)
                    /\ ~lastCall.load.fails
                          => /\ out.success
                             /\ Len(out.blocks) <= 34
                             /\ Len(out.blocks)
                                   = min(lastCall.load.following, 34)
                             /\ \A i \in 1..Len(out.blocks) :
                                   out.blocks[i].id
                                     = lastCall.query.lastBlockId + i

\* The load failed, and a load of more than 34 following blocks succeeded.
C17_Witness ==
    /\ lastCall.method = "blocks"
    /\ lastCall.query.kind = "lastBlockId"
    /\ lastCall.load.fails
    /\ lastCall.load.following > 34
    /\ ~lastCall.outcome.success

\* The connected peers that advertise the module with a broadhash field, and
\* those among them whose broadhash is b.
AdvertisingWithBroadhash(connectedPeers) ==
    [k \in DOMAIN connectedPeers |->
        IF PeerKinds[k].advertises /\ PeerKinds[k].broadhash # "undefined"
        THEN connectedPeers[k] ELSE 0]
AdvertisingBroadhash(connectedPeers, b) ==
    [k \in DOMAIN connectedPeers |->
        IF PeerKinds[k].advertises /\ PeerKinds[k].broadhash = b
        THEN connectedPeers[k] ELSE 0]

\* h is n / d x 10000 rounded to a whole number: a percentage with two decimals.
RoundedRatio(h, n, d) ==
    /\ 2 * (h * d - 10000 * n) <= d
    /\ 2 * (10000 * n - h * d) <= d

\* C18: the peers calculateConsensus counts as matched are the active peers
\* whose broadhash is the broadhash passed as its argument.
C18_MatchesArgument ==
    (lastCall.method = "calculateConsensus" /\ lastCall.appState.known
        /\ lastCall.outcome.active > 0)
    => lastCall.outcome.matched
         = length(AdvertisingBroadhash(lastCall.connectedPeers,
                                       lastCall.argument))

\* C19: the peers calculateConsensus counts as active are the connected
\* peers that advertise the module with a broadhash field.
C19_ActiveHaveBroadhash ==
    (lastCall.method = "calculateConsensus" /\ lastCall.appState.known)
    => lastCall.outcome.active
         = length(AdvertisingWithBroadhash(lastCall.connectedPeers))

Advertising(connectedPeers) ==
    [k \in DOMAIN connectedPeers |->
        IF PeerKinds[k].advertises THEN connectedPeers[k] ELSE 0]

C22_PoorBelowMinimum ==
    lastCall.method = "isPoorConsensus"
    => IF lastCall.forgingForce
       THEN ~lastCall.outcome.poor /\ lastCall.outcome.invoked = {}
       ELSE lastCall.outcome.poor
              <=> (calculateConsensus(lastCall.argument, lastCall.appState,
                                      lastCall.connectedPeers).consensus
                      < lastCall.minBroadhashConsensus * 100)

\* Forging is not forced and the consensus, 100, is the minimum: not poor.
C22_Witness ==
    /\ lastCall.method = "isPoorConsensus"
    /\ ~lastCall.forgingForce
    /\ lastCall.minBroadhashConsensus = 100
    /\ length(Advertising(lastCall.connectedPeers)) > 0
    /\ calculateConsensus(lastCall.argument, lastCall.appState,
                          lastCall.connectedPeers).consensus = 10000
    /\ ~lastCall.outcome.poor

\* C23: when the DELETE_BLOCK handler runs for a block with at least one
\* transaction, transactionPool.onDeletedTransactions is called with the
\* block's transactions in the reverse of their order in the block; for a
\* block without transactions the pool is not called.
C23_DeletedReversed ==
    (emitted.name = EVENT_DELETE_BLOCK /\ "channel.publish" \in emitted.effects)
    => IF Len(emitted.before.transactions) > 0
       THEN /\ "transactionPool.onDeletedTransactions" \in emitted.effects
            /\ Len(emitted.poolArg) = Len(emitted.before.transactions)
            /\ \A i \in 1..Len(emitted.poolArg) :
                   emitted.poolArg[i]
                     = emitted.before.transactions[
                           Len(emitted.before.transactions) + 1 - i]
       ELSE /\ "transactionPool.onDeletedTransactions" \notin emitted.effects
            /\ emitted.poolArg = <<>>

\* The handler ran for a deleted block of two transactions: the pool got
\* the second one first.
C23_Witness ==
    /\ emitted.name = EVENT_DELETE_BLOCK
    /\ "channel.publish" \in emitted.effects
    /\ Len(emitted.before.transactions) = 2
    /\ emitted.poolArg = <<Tx(2), Tx(1)>>

\* C24: when loading.rebuildUpToRound is set, a bootstrap that got its
\* configuration switches broadcasts.active and syncing.active off, and once
\* loadBlockChain resolved it emits process 'cleanup' (without an error) and
\* returns: no listener of a block event, no nextSync, nextForge or
\* calculateConsensus job and no network subscription is ever made.
C24_RebuildStopsAfterLoad ==
    (options.rebuildUpToRound /\ phase \notin {"new", "rejected"})
    => /\ ~options.broadcastsActive
       /\ ~options.syncingActive
       /\ phase \in {"loading", "rebuilt", "failed"}
       /\ phase = "rebuilt" => procCleanup = "plain"
       /\ phase = "loading" => procCleanup = "none"
       /\ listeners = {}
       /\ jobs = {}
       /\ ~netSubs

\* A rebuild whose loadBlockChain resolved: 'cleanup' was emitted.
C24_Witness ==
    /\ options.rebuildUpToRound
    /\ phase = "rebuilt"
    /\ procCleanup = "plain"
    /\ listeners = {}
    /\ jobs = {}

\* C25: an error thrown by an initialization step of bootstrap is logged as
\* fatal and process 'cleanup' is emitted with it, no later step of bootstrap
\* is executed, and bootstrap() does not reject.
C25_InitErrorsAreFatal ==
    /\ phase # "rejected"
    /\ phase = "failed"
          => /\ procCleanup = "error"
             /\ listeners = {}
             /\ jobs = {}
             /\ ~netSubs

\* The pieces joined by commas.
Join(pieces) ==
    LET joined[i \in 1..Len(pieces)] ==
            IF i = 1 THEN pieces[1] ELSE joined[i - 1] \o <<",">> \o pieces[i]
    IN  joined[Len(pieces)]

\* C26: for every type-0 row with a non-empty signatures field, the
\* sanitized signatures has one entry per comma-separated signature, in the
\* same order, each with the signature and a signerAddress that is the
\* address of a member key that verifies that signature, or null when no
\* member key verifies it.
C26_SignersResolved ==
    lastCall.method = "getOutboundTransactions"
    => \A i \in 1..Len(lastCall.transactions) :
          LET txn == lastCall.transactions[i]
              out == lastCall.outcome[i]
          IN  (txn.type = 0 /\ txn.signatures.is = "string"
                  /\ txn.signatures.chars # <<>>)
              => /\ out.signatures.is = "array"
                 /\ Len(out.signatures.items) >= 1
                 /\ Join([j \in 1..Len(out.signatures.items) |->
                             out.signatures.items[j].signature.chars])
                       = txn.signatures.chars
                 /\ \A j \in 1..Len(out.signatures.items) :
                       LET item == out.signatures.items[j]
                           verifying ==
                               {k \in 1..Len(lastCall.members) :
                                   <<item.signature.chars, lastCall.members[k]>>
                                       \in lastCall.valid}
                       IN  /\ "," \notin Range(item.signature.chars)
                           /\ IF verifying = {}
                              THEN item.signerAddress = Null
                              ELSE \E k \in verifying :
                                     item.signerAddress
                                       = [is |-> "address",
                                          of |-> lastCall.members[k]]

\* A type-0 row with the signatures "b,a" of a wallet of two members, the
\* second of which made "a": the first entry has no signer, the second has
\* the address of the second member.
C26_Witness ==
    /\ lastCall.method = "getOutboundTransactions"
    /\ Len(lastCall.transactions) >= 1
    /\ lastCall.transactions[1].type = 0
    /\ lastCall.transactions[1].signatures = String(<<"b", ",", "a">>)
    /\ lastCall.members = <<"K1", "K2">>
    /\ lastCall.valid = {<< <<"a">>, "K2" >>}
    /\ lastCall.outcome[1].signatures.items
         = << [signerAddress |-> Null, signature |-> String(<<"b">>)],
              [signerAddress |-> [is |-> "address", of |-> "K2"],
               signature |-> String(<<"a">>)] >>

\* C27: every transaction the transaction queries return has the sanitized
\* shape: it has senderAddress and recipientAddress (and message when the
\* row has transferData) and has no senderId, recipientId or transferData;
\* the result has as many transactions as the query has rows, in the same
\* order.
C27_SanitizedShape ==
    lastCall.method = "getOutboundTransactions"
    => /\ Len(lastCall.outcome) = Len(lastCall.transactions)
       /\ \A i \in 1..Len(lastCall.transactions) :
             LET txn == lastCall.transactions[i]
                 out == lastCall.outcome[i]
             IN  /\ out.id = txn.id
                 /\ {"senderAddress", "recipientAddress"} \subseteq DOMAIN out
                 /\ txn.transferData.is = "Buffer" => "message" \in DOMAIN out
                 /\ DOMAIN out \cap {"senderId", "recipientId", "transferData"}
                       = {}

\* C28: whenever loader.sync() begins in its Sequence task, the chain is
\* still stale and no other sync is in progress.
C28_SyncStartsStale ==
    [][(current' = "sync" /\ current # "sync")
          => (stale /\ ~loaderSyncing)]_vars

\* C29: whenever _receiveTransaction hands a transaction to
\* transactionPool.processUnconfirmedTransaction, the transaction passed
\* validateTransactions and passed checkAllowedTransactions against the
\* block that is blocks.lastBlock at the hand-over.
C29_CheckedAgainstLastBlock ==
    ingestPc = "inPool"
    => (ingestCheck.errors = "none" /\ ingestCheck.against = "lastBlock")

\* C30: before blocks.loadBlockChain has resolved there is no network
\* subscription and no timer job, so no postBlock or postTransactions event
\* is handled, no block and no forging or sync task is added to the Sequence,
\* and the Sequence runs nothing.
C30_NothingBeforeLoad ==
    /\ [](phase \in {"new", "loading"}
            => /\ ~netSubs
               /\ jobs = {}
               /\ queue = <<>>
               /\ current = "none")
    /\ [][(phase \in {"new", "loading"})
            => ~(\/ PostBlock
                 \/ PostTransactions
                 \/ TaskAdded("block")
                 \/ TaskAdded("forge")
                 \/ TaskAdded("sync"))]_vars

\* The modules are there and the block chain is being loaded: the chain
\* already serves its postTransaction action, and nothing is subscribed.
C30_Witness ==
    /\ phase = "loading"
    /\ scope = "full"
    /\ ingestPc = "checking"
    /\ ~netSubs
    /\ jobs = {}

\* C31: cleanup(error) completes without throwing from every state in which
\* bootstrap can leave the chain, a bootstrap that failed before the scope or
\* the modules were created included.
C31_CleanupNeverThrows ==
    cleanupPc # "rejected"

\* C32: the module publishes {alias}:bootstrap only after the chain was
\* initialized: not when bootstrap ended in a fatal initialization error or
\* in the 'cleanup' emission of a rebuild.
C32_PublishedOnlyWhenReady ==
    published => phase = "ready"

\* C33 as claimed: calculateConsensus returns 100 only if every active peer
\* advertises the broadhash of the application state, whatever the number of
\* connected peers.
C33_FullOnlyIfAllMatch ==
    (lastCall.method = "calculateConsensus"
        /\ lastCall.outcome.consensus = 10000)
    => /\ length(Advertising(lastCall.connectedPeers)) > 0
       /\ length(AdvertisingBroadhash(lastCall.connectedPeers,
                                      lastCall.appState.broadhash))
            = length(Advertising(lastCall.connectedPeers))

\* C33 as amended: calculateConsensus returns 100 only if every active peer
\* advertises the broadhash of the application state, or at least MAX_PEERS
\* active peers do.
C33_FullOnlyIfAllOrMaxMatch ==
    (lastCall.method = "calculateConsensus"
        /\ lastCall.outcome.consensus = 10000)
    => /\ length(Advertising(lastCall.connectedPeers)) > 0
       /\ \/ length(AdvertisingBroadhash(lastCall.connectedPeers,
                                         lastCall.appState.broadhash))
               = length(Advertising(lastCall.connectedPeers))
          \/ length(AdvertisingBroadhash(lastCall.connectedPeers,
                                         lastCall.appState.broadhash))
               >= MAX_PEERS

\* 101 peers advertise the broadhash of the application state and one
\* active peer advertises another: the consensus is 100.
C33_Witness ==
    /\ lastCall.method = "calculateConsensus"
    /\ lastCall.appState.known
    /\ length(AdvertisingBroadhash(lastCall.connectedPeers,
                                   lastCall.appState.broadhash)) = MAX_PEERS + 1
    /\ length(Advertising(lastCall.connectedPeers)) = MAX_PEERS + 2
    /\ lastCall.outcome.consensus = 10000

\* C34: a BROADCAST_BLOCK event leads to a broadcaster.broadcast call only
\* if loader.syncing() is false when the event is handled; while syncing the
\* handler does nothing for the block.
C34_NoBroadcastWhileSyncing ==
    (emitted.name = EVENT_BROADCAST_BLOCK /\ emitted.heard)
    => /\ "broadcaster.broadcast" \in emitted.effects => ~emitted.syncing
       /\ emitted.syncing
             => /\ emitted.effects = {}
                /\ emitted.after = emitted.before

\* The handler ran for a BROADCAST_BLOCK event during a sync: no broadcast.
C34_Witness ==
    /\ emitted.name = EVENT_BROADCAST_BLOCK
    /\ emitted.heard
    /\ emitted.syncing
    /\ Len(emitted.before.transactions) > 0
    /\ emitted.effects = {}

====
